---- MODULE Spec2Model ----
(***************************************************************************)
(* Chat lifecycle, message ledger, presence map and delivery of the        *)
(* two-party chat backend (saidatta64/chat-app, server/src).               *)
(*                                                                         *)
(* Every request is served by an async function; each `await` on the store *)
(* is a point where other requests may run.  A request handler is modelled *)
(* as a process p whose pc[p] names the await it is suspended at; one      *)
(* action is the code that runs from one await to the next.  The first     *)
(* store read of a handler is taken together with the handler's start      *)
(* (nothing of the handler is observable before it).                       *)
(*                                                                         *)
(* Identifiers.  User ids are strings: "" is a missing field, "bad" is a   *)
(* string that is no ObjectId, every other one is a well-formed ObjectId.  *)
(* Chat ids and message ids are the position of the document in its        *)
(* collection (insertion order); as arguments, 0 is a malformed id and a   *)
(* positive id beyond the collection is well formed but names no document. *)
(*                                                                         *)
(* A text is abstracted to [pre, body, post]: `pre` leading blanks, a      *)
(* `body` of that many characters starting and ending with a non-blank,    *)
(* `post` trailing blanks.  An optional date is <<>> or <<t>>.             *)
(***************************************************************************)
EXTENDS Integers, Sequences, FiniteSets, TLC

\* ---------------------------------------------------------------- bounds
MaxChats == 2
MaxMessages == 1
MaxClock == 1
\* the longest message collection the pagination is applied to
MaxListed == 3

\* ------------------------------------------------------ program constants
MaxContentLength == 5000
\* getChatMessages: query.limit || 50, Math.min(100, ...)
DefaultLimit == 50
MaxLimit == 100

\* ------------------------------------------------------------ input sets
\* the request handlers that may be in flight together
Procs == {"p1", "p2"}
\* the connection whose events process p serves
SocketOf(p) == IF p = "p1" THEN "s1" ELSE "s2"
\* the connections the clients have opened (io.on('connection')); a socket id
\* is never used again once its connection is closed
Sockets == {"s1", "s2"}

Text(pre, body, post) == [pre |-> pre, body |-> body, post |-> post]

\* Under concurrency (Spec, SpecMsg): two stored users, and as arguments their
\* ids and the well-formed id of no user; every well-formed chat id; a blank
\* text and a text with blanks around two characters.
Users == {"u1", "u2"}
UserIdArgs == Users \cup {"u9"}
ChatIdArgs == 1 .. MaxChats
ContentArgs == {Text(1, 0, 0), Text(1, 2, 1)}

\* One request at a time (SpecSeq): three stored users, and as arguments also
\* a string that is no ObjectId and the malformed chat id.
SeqUsers == {"u1", "u2", "u3"}
SeqUserIdArgs == SeqUsers \cup {"u9", "bad"}
SeqChatIdArgs == 0 .. MaxChats

VARIABLES
  users,        \* the User collection: id -> document
  chats,        \* the Chat collection, in insertion order
  messages,     \* the Message collection, in insertion order
  onlineUsers,  \* socket.handler's Map userId -> socketId ("" = no entry)
  sockets,      \* the ids of the sockets whose connection is open
  now,          \* the wall clock read by Date.now / new Date()
  pc,           \* pc[p]: the await process p is suspended at
  call,         \* call[p]: the operation p serves, with its arguments
  doc,          \* doc[p]: the documents p holds in memory
  ret,          \* the call that returned (or threw) in the last step, if any
  emitted       \* the events pushed to sockets by the last step, in order

vars == <<users, chats, messages, onlineUsers, sockets, now, pc, call, doc, ret, emitted>>

\* ------------------------------------------------------------ documents
NoDoc == [id |-> 0]
NoCall == [op |-> "none"]
NoReturn == [call |-> NoCall, ok |-> FALSE, error |-> "", value |-> NoDoc]

Ok(v) == [ok |-> TRUE, error |-> "", value |-> v]
Err(msg) == [ok |-> FALSE, error |-> msg, value |-> NoDoc]

IsValidUserId(u) == u \notin {"", "bad"}
IsValidChatId(c) == c >= 1

WithId(cs, i) == [id |-> i] @@ cs[i]

\* A userExists that only checks that the id is well formed
UserExistsIfValid(us, u) == IsValidUserId(u)

\* userService.userExists
UserExists(us, u) == IsValidUserId(u) /\ u \in DOMAIN us

\* Chat.findById
ChatExists(cs, c) == c \in DOMAIN cs

SeqRange(s) == {s[i] : i \in DOMAIN s}

\* chat.participants.some((p) => p.toString() === userId)
IsParticipant(chat, userId) == userId \in SeqRange(chat.participants)

\* ------------------------------------------------- presence (Map.get)
\* onlineUsers is a JavaScript Map: a sequence of <<userId, socketId>> entries
\* in key insertion order.  onlineUsers.get(userId), "" when there is no entry.
OnlineGet(m, u) ==
  LET hits == {i \in DOMAIN m : m[i][1] = u}
  IN IF hits = {} THEN "" ELSE m[CHOOSE i \in hits : TRUE][2]

\* onlineUsers.set(userId, socketId): the value of an existing key is replaced
\* where the key stands, a new key is added at the end
OnlineSet(m, u, s) ==
  IF \E i \in DOMAIN m : m[i][1] = u
    THEN [i \in DOMAIN m |-> IF m[i][1] = u THEN <<u, s>> ELSE m[i]]
    ELSE Append(m, <<u, s>>)

\* A loop without its test of the socketId: the first entry is deleted
OnlineDeleteUntested(m, s) == IF m = <<>> THEN m ELSE Tail(m)

\* the disconnect listener's loop over onlineUsers.entries(): the first entry
\* whose socketId is s is deleted, and the loop breaks
OnlineDeleteFirst(m, s) ==
  LET hits == {i \in DOMAIN m : m[i][2] = s}
  IN IF hits = {} THEN m
     ELSE LET k == CHOOSE i \in hits : \A j \in hits : i <= j
          IN [i \in 1 .. Len(m) - 1 |-> IF i < k THEN m[i] ELSE m[i + 1]]

\* ------------------------------------------------- chat lifecycle (pure)
\* { participants: { $all: [a, b] } }
PairMatches(chat, a, b) ==
  a \in SeqRange(chat.participants) /\ b \in SeqRange(chat.participants)

\* A findOne that matches the participants array as written, [a, b] in that
\* order, instead of with $all.
FindOneChatOrdered(cs, a, b) ==
  LET hits == {i \in DOMAIN cs : cs[i].participants = <<a, b>>}
  IN IF hits = {} THEN 0 ELSE CHOOSE i \in hits : \A j \in hits : i <= j

\* Chat.findOne({ participants: { $all: [fromUserId, toUserId] } }): the first
\* matching document in the collection's natural (insertion) order, 0 if none.
FindOneChat(cs, a, b) ==
  LET hits == {i \in DOMAIN cs : PairMatches(cs[i], a, b)}
  IN IF hits = {} THEN 0 ELSE CHOOSE i \in hits : \A j \in hits : i <= j

\* A new Chat that is stamped with an acceptedAt when it is built
NewChatStamped(from, to, t) ==
  [participants |-> <<from, to>>, status |-> "pending", initiatedBy |-> from,
   createdAt |-> t, acceptedAt |-> <<t>>]

\* new Chat({ participants: [from, to], status: 'pending', initiatedBy: from })
\* with the schema defaults: createdAt = Date.now, no acceptedAt.
NewChat(from, to, t) ==
  [participants |-> <<from, to>>, status |-> "pending", initiatedBy |-> from,
   createdAt |-> t, acceptedAt |-> <<>>]

\* chatSchema.participants.validate
ParticipantsValid(ps) == Len(ps) = 2 /\ ps[1] # ps[2]

\* The unique indexes of the chats collection: chatSchema declares four
\* indexes, none of them unique, so an insert never fails with code 11000.
ChatInsertConflicts(cs, chat) == FALSE

\* A save of the new chat written as an upsert on the pair: the document of an
\* existing chat of the two users is replaced by the new one.
InsertChatUpsert(cs, chat) ==
  LET hits == {i \in DOMAIN cs :
                 SeqRange(cs[i].participants) = SeqRange(chat.participants)}
  IN IF hits = {} THEN Append(cs, chat)
     ELSE [cs EXCEPT ![CHOOSE i \in hits : TRUE] = chat]

\* chat.save() of a new document
InsertChat(cs, chat) == Append(cs, chat)

\* toChatResponse
ToChatResponse(d) ==
  [id |-> d.id, participants |-> d.participants, status |-> d.status,
   initiatedBy |-> d.initiatedBy, createdAt |-> d.createdAt,
   acceptedAt |-> d.acceptedAt]

\* acceptChat's checks without the participant check
AcceptChatCheckAnyUser(chat, userId) ==
  IF chat.initiatedBy = userId THEN "Cannot accept your own chat request"
  ELSE IF chat.status # "pending"
    THEN (IF chat.status = "accepted" THEN "Chat is already accepted"
          ELSE "Chat is already rejected")
  ELSE ""

\* acceptChat's checks with the status check moved before the initiator check
AcceptChatCheckStatusFirst(chat, userId) ==
  IF ~IsParticipant(chat, userId) THEN "User is not a participant in this chat"
  ELSE IF chat.status # "pending"
    THEN (IF chat.status = "accepted" THEN "Chat is already accepted"
          ELSE "Chat is already rejected")
  ELSE IF chat.initiatedBy = userId THEN "Cannot accept your own chat request"
  ELSE ""

\* acceptChat's checks on the chat it read, in the code's order; "" = passed
AcceptChatCheck(chat, userId) ==
  IF ~IsParticipant(chat, userId) THEN "User is not a participant in this chat"
  ELSE IF chat.initiatedBy = userId THEN "Cannot accept your own chat request"
  ELSE IF chat.status # "pending"
    THEN (IF chat.status = "accepted" THEN "Chat is already accepted"
          ELSE "Chat is already rejected")
  ELSE ""

\* An acceptChat that also records the accepting user in initiatedBy.
AcceptedDocByUser(chat, userId, t) ==
  [chat EXCEPT !.status = "accepted", !.acceptedAt = <<t>>, !.initiatedBy = userId]

\* An acceptChat that writes the wrong literal of the status enum
AcceptedDocRejected(chat, userId, t) ==
  [chat EXCEPT !.status = "rejected", !.acceptedAt = <<t>>]

\* acceptChat(chatId, userId) on the chat it loaded:
\* chat.status = 'accepted'; chat.acceptedAt = new Date()
AcceptedDoc(chat, userId, t) ==
  [chat EXCEPT !.status = "accepted", !.acceptedAt = <<t>>]

\* chat.save() of a loaded document: $set of the paths modified in memory, by
\* _id, with no version check.  The paths never modified in memory hold what
\* the store holds (nothing else writes them), so writing d whole is the same.
SaveChat(cs, d) ==
  [cs EXCEPT ![d.id] =
     [participants |-> d.participants, status |-> d.status,
      initiatedBy |-> d.initiatedBy, createdAt |-> d.createdAt,
      acceptedAt |-> d.acceptedAt]]

\* ------------------------------------------------------ delivery (pure)
Event(type, to, ref) == [type |-> type, to |-> to, ref |-> ref]

\* A notifyChatRequest that addresses the first participant of the chat
NotifyChatRequestFirst(chat, online) ==
  IF OnlineGet(online, chat.participants[1]) # ""
    THEN <<Event("CHAT_REQUEST", OnlineGet(online, chat.participants[1]), chat.id)>>
    ELSE <<>>

\* messageHandler.notifyChatRequest: the first participant that is not the
\* initiator, if it has a presence entry
NotifyChatRequest(chat, online) ==
  LET others == {i \in DOMAIN chat.participants : chat.participants[i] # chat.initiatedBy}
  IN IF others = {} THEN <<>>
     ELSE LET r == chat.participants[CHOOSE i \in others : \A j \in others : i <= j]
          IN IF OnlineGet(online, r) # ""
             THEN <<Event("CHAT_REQUEST", OnlineGet(online, r), chat.id)>>
             ELSE <<>>

\* A fan-out that stops at the first participant it can reach
FanOutFirst(type, participants, online, ref) ==
  LET hits == {i \in DOMAIN participants : OnlineGet(online, participants[i]) # ""}
  IN IF hits = {} THEN <<>>
     ELSE <<Event(type, OnlineGet(online, participants[CHOOSE i \in hits : \A j \in hits : i <= j]), ref)>>

\* the participants.forEach fan-out: one event per participant with an entry
FanOut(type, participants, online, ref) ==
  LET F[i \in 0 .. Len(participants)] ==
        IF i = 0 THEN <<>>
        ELSE IF OnlineGet(online, participants[i]) # ""
          THEN Append(F[i - 1], Event(type, OnlineGet(online, participants[i]), ref))
          ELSE F[i - 1]
  IN F[Len(participants)]

\* A notifyChatAccepted that tells only the initiator
NotifyChatAcceptedInitiator(chat, online) ==
  IF OnlineGet(online, chat.initiatedBy) # ""
    THEN <<Event("CHAT_ACCEPTED", OnlineGet(online, chat.initiatedBy), chat.id)>>
    ELSE <<>>

\* messageHandler.notifyChatAccepted
NotifyChatAccepted(chat, online) ==
  FanOut("CHAT_ACCEPTED", chat.participants, online, chat.id)

\* server.ts wrapper of createChatRequest: notify when the returned chat is pending
CreateChatRequestNotify(chat, online) ==
  IF chat.status = "pending" THEN NotifyChatRequest(chat, online) ELSE <<>>

\* ------------------------------------------------- message ledger (pure)
\* String.prototype.trim
Trim(c) == Text(0, c.body, 0)
TextLen(c) == c.pre + c.body + c.post

\* A content schema without its maxlength
ContentValidUnbounded(c) == TextLen(c) >= 1

\* messageSchema.content: required, minlength 1, maxlength 5000
ContentValid(c) == TextLen(c) >= 1 /\ TextLen(c) <= MaxContentLength

\* A validateChatParticipants that only looks the chat up
ValidateChatExists(cs, chatId, userId) ==
  IF ~IsValidChatId(chatId) \/ ~IsValidUserId(userId) THEN "Invalid chat ID or user ID"
  ELSE IF ~ChatExists(cs, chatId) THEN "Chat not found"
  ELSE ""

\* validateChatParticipants; "" = the chat is returned
ValidateChatParticipants(cs, chatId, userId) ==
  IF ~IsValidChatId(chatId) \/ ~IsValidUserId(userId) THEN "Invalid chat ID or user ID"
  ELSE IF ~ChatExists(cs, chatId) THEN "Chat not found"
  ELSE IF ~IsParticipant(cs[chatId], userId) THEN "User is not a participant in this chat"
  ELSE ""

\* A createMessage without the status check
ChatAcceptsAlways(chat) == TRUE

\* A createMessage whose status check is written the wrong way round
ChatAcceptsWhenNotAccepted(chat) == chat.status # "accepted"

\* createMessage: chat.status !== 'accepted' throws
ChatAcceptsMessages(chat) == chat.status = "accepted"

\* createMessage up to its status check; "" = passed
CreateMessageCheck(cs, chatId, senderId) ==
  IF ~IsValidChatId(chatId) \/ ~IsValidUserId(senderId) THEN "Invalid chat ID or sender ID"
  ELSE IF ValidateChatParticipants(cs, chatId, senderId) # ""
    THEN ValidateChatParticipants(cs, chatId, senderId)
  ELSE IF ~ChatAcceptsMessages(cs[chatId])
    THEN "Cannot send messages to a chat that is not accepted"
  ELSE ""

\* new Message({ chatId, senderId, content: content.trim() }), createdAt = Date.now;
\* createMessage has no fourth parameter, the replyToId handleMessageSend
\* passes is dropped and the document's replyTo stays unset (0)
NewMessage(chatId, senderId, content, t) ==
  [chatId |-> chatId, senderId |-> senderId, content |-> Trim(content), createdAt |-> t,
   replyTo |-> 0, deleted |-> FALSE]

\* A toMessageResponse that stringifies the populated sender document
ToMessageResponseOfPopulated(ms, i) ==
  [id |-> i, chatId |-> ms[i].chatId, senderId |-> "[object Object]",
   content |-> ms[i].content, createdAt |-> ms[i].createdAt]

\* toMessageResponse
ToMessageResponse(ms, i) ==
  [id |-> i, chatId |-> ms[i].chatId, senderId |-> ms[i].senderId,
   content |-> ms[i].content, createdAt |-> ms[i].createdAt]

\* chatService.deleteMessage(messageId, userId) is not part of the sources;
\* it is taken from its specification: NotFound when the message does not
\* exist, Forbidden when userId is not its sender; "" = passed
DeleteMessageCheck(ms, messageId, userId) ==
  IF messageId \notin DOMAIN ms THEN "Message not found"
  ELSE IF ms[messageId].senderId # userId THEN "Only the sender can delete a message"
  ELSE ""

\* deleteMessage on success: the message is marked deleted (a no-op when it
\* already is)
MarkDeleted(ms, messageId) == [ms EXCEPT ![messageId].deleted = TRUE]

\* ------------------------------------------------- getChatMessages (pure)
Max(a, b) == IF a >= b THEN a ELSE b
Min(a, b) == IF a <= b THEN a ELSE b

\* An optional number of the query string is <<>> (absent) or <<n>>.
\* Math.max(1, query.page || 1): absent and 0 are falsy
EffectivePage(page) ==
  IF page = <<>> \/ page = <<0>> THEN 1 ELSE Max(1, page[1])

\* Math.min(100, Math.max(1, query.limit || 50))
EffectiveLimit(limit) ==
  IF limit = <<>> \/ limit = <<0>> THEN DefaultLimit
  ELSE Min(MaxLimit, Max(1, limit[1]))

\* Message.find({ chatId }): the ids of the chat's messages
MessagesOfChat(ms, chatId) == {i \in DOMAIN ms : ms[i].chatId = chatId}

\* .sort({ createdAt: -1 }) over the index { chatId: 1, createdAt: -1 }: i is
\* returned before j when it is newer; entries of one createdAt stand in the
\* index in the order of their insertion
SortedBefore(ms, i, j) ==
  \/ ms[i].createdAt > ms[j].createdAt
  \/ ms[i].createdAt = ms[j].createdAt /\ i < j

\* the ids of the chat's messages, newest first
SortNewestFirst(ms, chatId) ==
  LET S == MessagesOfChat(ms, chatId)
  IN [k \in 1 .. Cardinality(S) |->
        CHOOSE i \in S : Cardinality({j \in S : SortedBefore(ms, j, i)}) = k - 1]

\* .skip(skip).limit(limit)
SkipLimit(q, skip, limit) ==
  IF skip >= Len(q) THEN <<>> ELSE SubSeq(q, skip + 1, Min(Len(q), skip + limit))

\* A page handed out as fetched, newest first
ReverseOmitted(q) == q

\* Array.prototype.reverse
Reverse(q) == [k \in 1 .. Len(q) |-> q[Len(q) + 1 - k]]

\* A page computed with skip = page * limit
PageDataSkipOne(ms, chatId, page, limit) ==
  LET ids == Reverse(SkipLimit(SortNewestFirst(ms, chatId), page * limit, limit))
  IN [k \in 1 .. Len(ids) |-> ToMessageResponse(ms, ids[k])]

\* the data of one page: the page is fetched newest first, mapped with
\* toMessageResponse and reversed
PageData(ms, chatId, page, limit) ==
  LET ids == Reverse(SkipLimit(SortNewestFirst(ms, chatId), (page - 1) * limit, limit))
  IN [k \in 1 .. Len(ids) |-> ToMessageResponse(ms, ids[k])]

\* Math.ceil(total / limit)
TotalPages(total, limit) == (total + limit - 1) \div limit

\* handleMessageSend: !chatId || !content || !senderId
MissingFields(chatId, content, senderId) == TextLen(content) = 0 \/ senderId = ""

\* an ERROR event on socket s
ErrorEvent(s, msg) == [type |-> "ERROR", to |-> s, error |-> msg]

\* A catch that logs the error and emits nothing
ThrownUnreported(s, msg) == <<>>

\* handleMessageSend's catch emits ERROR and rethrows; the MESSAGE_SEND
\* listener of socket.handler catches that and emits ERROR again
ThrownInHandler(s, msg) == <<ErrorEvent(s, msg), ErrorEvent(s, msg)>>

\* ------------------------------------------------------- users (pure)
MinPasswordLength == 6

\* a username as it is passed: its text, with blanks around it or not
Name(pad, text) == [pad |-> pad, text |-> text]

\* username.trim()
TrimName(n) == n.text

\* bcrypt.hash(password, SALT_ROUNDS) and bcrypt.compare(password, hash)
Hash(password) == [bcrypt |-> password]
Compare(password, hash) == hash.bcrypt = password

\* new User({ username, email, passwordHash }), createdAt = Date.now; the
\* passwordHash is optional: <<>> or <<hash>>
UserDoc(username, passwordHash, t) ==
  [username |-> username, passwordHash |-> passwordHash, createdAt |-> t]

\* stored users that have no password yet, named as their ids
UserStore(ids) == [u \in ids |-> UserDoc(u, <<>>, 0)]

\* the ObjectIds new documents get, in the order of their creation
UserIds == <<"u1", "u2", "u3", "u4">>

\* User.findOne({ username }); "" = null
FindUserByUsername(us, username) ==
  LET hits == {u \in DOMAIN us : us[u].username = username}
  IN IF hits = {} THEN "" ELSE CHOOSE u \in hits : TRUE

\* the unique index on username: an insert of a second document of the
\* username fails with code 11000
UsernameTaken(us, username) == \E u \in DOMAIN us : us[u].username = username

\* user.save() of a new document
InsertUser(us, d) == (UserIds[Cardinality(DOMAIN us) + 1] :> d) @@ us

\* toUserResponse
ToUserResponse(us, u) ==
  [id |-> 0, userId |-> u, username |-> us[u].username, createdAt |-> us[u].createdAt]

\* enter, up to its first await; "" = passed
EnterCheck(username, password) ==
  IF TrimName(username) = "" THEN "Username is required"
  ELSE IF password = "" THEN "Password is required"
  ELSE IF Len(password) < MinPasswordLength THEN "Password must be at least 6 characters"
  ELSE ""

\* ------------------------------------------------------- HTTP boundary
\* err.statusCode of an error thrown by chat.service: every throw there is
\* `new Error(message)`, which has no statusCode (0)
ErrorStatusCode(msg) == 0

\* the error middleware: err.statusCode || 500
ErrorMiddleware(msg) == IF ErrorStatusCode(msg) # 0 THEN ErrorStatusCode(msg) ELSE 500

\* the status of the response ChatController gives to a request whose service
\* call ended as r: 400 for a missing body field, the success status, or
\* next(error) into the error middleware
HttpStatus(r) ==
  IF r.call.op = "createChatRequest"
    THEN IF r.call.fromUserId = "" \/ r.call.toUserId = "" THEN 400
         ELSE IF r.ok THEN 201 ELSE ErrorMiddleware(r.error)
  ELSE IF r.call.op = "acceptChat"
    THEN IF r.call.userId = "" THEN 400
         ELSE IF r.ok THEN 200 ELSE ErrorMiddleware(r.error)
  ELSE IF r.ok THEN 200 ELSE ErrorMiddleware(r.error)

\* ------------------------------------------------------- process steps
Idle(p) == pc[p] = "idle"

\* p's call returns r (or throws it), having pushed the events ev
Return(p, c, r, ev) ==
  /\ pc' = [pc EXCEPT ![p] = "idle"]
  /\ call' = [call EXCEPT ![p] = NoCall]
  /\ doc' = [doc EXCEPT ![p] = NoDoc]
  /\ ret' = [call |-> c] @@ r
  /\ emitted' = ev

\* p's call c suspends at await l holding d
Await(p, c, l, d) ==
  /\ pc' = [pc EXCEPT ![p] = l]
  /\ call' = [call EXCEPT ![p] = c]
  /\ doc' = [doc EXCEPT ![p] = d]
  /\ ret' = NoReturn
  /\ emitted' = <<>>

Init ==
  /\ users = UserStore(Users)
  /\ chats = <<>>
  /\ messages = <<>>
  /\ onlineUsers = <<>>
  /\ sockets = Sockets
  /\ now = 0
  /\ pc = [p \in Procs |-> "idle"]
  /\ call = [p \in Procs |-> NoCall]
  /\ doc = [p \in Procs |-> NoDoc]
  /\ ret = NoReturn
  /\ emitted = <<>>

\* time passes
Tick ==
  /\ now < MaxClock
  /\ now' = now + 1
  /\ ret' = NoReturn
  /\ emitted' = <<>>
  /\ UNCHANGED <<sockets, users, chats, messages, onlineUsers, pc, call, doc>>

\* A USER_CONNECT listener that replays the stored messages of the user's
\* chats to the socket
UserConnectReplay(s, userId) ==
  /\ s \in sockets
  /\ onlineUsers' = IF userId # "" THEN OnlineSet(onlineUsers, userId, s) ELSE onlineUsers
  /\ ret' = [call |-> [op |-> "USER_CONNECT", socketId |-> s, userId |-> userId]] @@ Ok(NoDoc)
  /\ emitted' = [k \in DOMAIN messages |-> Event("MESSAGE_RECEIVED", s, k)]
  /\ UNCHANGED <<users, chats, messages, sockets, now, pc, call, doc>>

\* the USER_CONNECT listener of socket s
UserConnect(s, userId) ==
  /\ s \in sockets
  /\ onlineUsers' = IF userId # "" THEN OnlineSet(onlineUsers, userId, s) ELSE onlineUsers
  /\ ret' = [call |-> [op |-> "USER_CONNECT", socketId |-> s, userId |-> userId]] @@ Ok(NoDoc)
  /\ emitted' = <<>>
  /\ UNCHANGED <<users, chats, messages, sockets, now, pc, call, doc>>

\* the disconnect listener of socket s
Disconnect(s) ==
  /\ s \in sockets
  /\ sockets' = sockets \ {s}
  /\ onlineUsers' = OnlineDeleteFirst(onlineUsers, s)
  /\ ret' = [call |-> [op |-> "disconnect", socketId |-> s]] @@ Ok(NoDoc)
  /\ emitted' = <<>>
  /\ UNCHANGED <<users, chats, messages, now, pc, call, doc>>

\* enter, from the call to the await that follows getUserByUsername: of
\* bcrypt.hash in createUser when there is no such user, of bcrypt.hash when
\* the user has no password yet, of bcrypt.compare otherwise
EnterStart(p, username, password) ==
    LET c == [op |-> "enter", username |-> username, password |-> password]
        u == FindUserByUsername(users, TrimName(username))
    IN /\ Idle(p)
       /\ IF EnterCheck(username, password) # ""
            THEN Return(p, c, Err(EnterCheck(username, password)), <<>>)
          ELSE IF u = ""
            THEN Await(p, c, "en_hash", NoDoc)
          ELSE IF users[u].passwordHash = <<>>
            THEN Await(p, c, "en_claim_hash", [id |-> 0, userId |-> u])
          ELSE Await(p, c, "en_compare",
                     [id |-> 0, userId |-> u, passwordHash |-> users[u].passwordHash[1]])
       /\ UNCHANGED <<sockets, users, chats, messages, onlineUsers, now>>

\* createUser, from bcrypt.hash to the await of user.save()
EnterHash(p) ==
  /\ pc[p] = "en_hash"
  /\ Await(p, call[p], "en_save",
           [id |-> 0,
            user |-> UserDoc(TrimName(call[p].username), <<Hash(call[p].password)>>, now)])
  /\ UNCHANGED <<sockets, users, chats, messages, onlineUsers, now>>

\* createUser, user.save() and the return, or the catch of code 11000
EnterSave(p) ==
  /\ pc[p] = "en_save"
  /\ IF UsernameTaken(users, doc[p].user.username)
       THEN /\ Return(p, call[p], Err("username already exists"), <<>>)
            /\ UNCHANGED users
       ELSE /\ Cardinality(DOMAIN users) < Len(UserIds)
            /\ users' = InsertUser(users, doc[p].user)
            /\ Return(p, call[p],
                      Ok(ToUserResponse(users', UserIds[Cardinality(DOMAIN users')])), <<>>)
  /\ UNCHANGED <<sockets, chats, messages, onlineUsers, now>>

\* enter on a user without password, from bcrypt.hash to the await of
\* existing.save()
EnterClaimHash(p) ==
  /\ pc[p] = "en_claim_hash"
  /\ Await(p, call[p], "en_claim_save",
           [id |-> 0, userId |-> doc[p].userId, passwordHash |-> Hash(call[p].password)])
  /\ UNCHANGED <<sockets, users, chats, messages, onlineUsers, now>>

\* enter on a user without password, existing.save() and the return
EnterClaimSave(p) ==
  /\ pc[p] = "en_claim_save"
  /\ users' = [users EXCEPT ![doc[p].userId].passwordHash = <<doc[p].passwordHash>>]
  /\ Return(p, call[p], Ok(ToUserResponse(users', doc[p].userId)), <<>>)
  /\ UNCHANGED <<sockets, chats, messages, onlineUsers, now>>

\* enter on a user with a password, bcrypt.compare and the return
EnterCompare(p) ==
  /\ pc[p] = "en_compare"
  /\ IF Compare(call[p].password, doc[p].passwordHash)
       THEN Return(p, call[p], Ok(ToUserResponse(users, doc[p].userId)), <<>>)
       ELSE Return(p, call[p], Err("Invalid password"), <<>>)
  /\ UNCHANGED <<sockets, users, chats, messages, onlineUsers, now>>

\* createChatRequest, from the call to the await of userExists(toUserId)
CreateChatRequestStart(p, from, to) ==
    LET c == [op |-> "createChatRequest", fromUserId |-> from, toUserId |-> to]
    IN /\ Idle(p)
       /\ IF ~IsValidUserId(from) \/ ~IsValidUserId(to)
            THEN Return(p, c, Err("Invalid user ID"), <<>>)
          ELSE IF from = to
            THEN Return(p, c, Err("Cannot create chat with yourself"), <<>>)
          ELSE Await(p, c, "cr_toUser",
                     [id |-> 0, fromUserExists |-> UserExists(users, from)])
       /\ UNCHANGED <<sockets, users, chats, messages, onlineUsers, now>>

\* createChatRequest, from userExists(toUserId) to the await of Chat.findOne
CreateChatRequestUsers(p) ==
  /\ pc[p] = "cr_toUser"
  /\ IF ~doc[p].fromUserExists \/ ~UserExists(users, call[p].toUserId)
       THEN Return(p, call[p], Err("One or both users do not exist"), <<>>)
       ELSE Await(p, call[p], "cr_find", NoDoc)
  /\ UNCHANGED <<sockets, users, chats, messages, onlineUsers, now>>

\* createChatRequest, from Chat.findOne to the await of chat.save()
CreateChatRequestFind(p) ==
  /\ pc[p] = "cr_find"
  /\ LET existing == FindOneChat(chats, call[p].fromUserId, call[p].toUserId)
     IN IF existing # 0
          THEN LET r == ToChatResponse(WithId(chats, existing))
               IN Return(p, call[p], Ok(r), CreateChatRequestNotify(r, onlineUsers))
          ELSE Await(p, call[p], "cr_save",
                     [id |-> 0] @@ NewChat(call[p].fromUserId, call[p].toUserId, now))
  /\ UNCHANGED <<sockets, users, chats, messages, onlineUsers, now>>

\* createChatRequest, chat.save() and what follows it
CreateChatRequestSave(p) ==
  /\ pc[p] = "cr_save"
  /\ LET new == [participants |-> doc[p].participants, status |-> doc[p].status,
                 initiatedBy |-> doc[p].initiatedBy, createdAt |-> doc[p].createdAt,
                 acceptedAt |-> doc[p].acceptedAt]
     IN IF ~ParticipantsValid(new.participants)
          THEN /\ Return(p, call[p], Err("Chat validation failed"), <<>>)
               /\ UNCHANGED chats
        ELSE IF ChatInsertConflicts(chats, new)
          THEN LET existing == FindOneChat(chats, call[p].fromUserId, call[p].toUserId)
               IN /\ IF existing # 0
                       THEN LET r == ToChatResponse(WithId(chats, existing))
                            IN Return(p, call[p], Ok(r), CreateChatRequestNotify(r, onlineUsers))
                       ELSE Return(p, call[p], Err("E11000 duplicate key error"), <<>>)
                  /\ UNCHANGED chats
        ELSE /\ Len(chats) < MaxChats
             /\ chats' = InsertChat(chats, new)
             /\ LET r == ToChatResponse(WithId(chats', Len(chats')))
                IN Return(p, call[p], Ok(r), CreateChatRequestNotify(r, onlineUsers))
  /\ UNCHANGED <<sockets, users, messages, onlineUsers, now>>

\* acceptChat, from the call to the await of chat.save()
AcceptChatStart(p, chatId, userId) ==
    LET c == [op |-> "acceptChat", chatId |-> chatId, userId |-> userId]
    IN /\ Idle(p)
       /\ IF ~IsValidChatId(chatId) \/ ~IsValidUserId(userId)
            THEN Return(p, c, Err("Invalid chat ID or user ID"), <<>>)
          ELSE IF ~ChatExists(chats, chatId)
            THEN Return(p, c, Err("Chat not found"), <<>>)
          ELSE IF AcceptChatCheck(chats[chatId], userId) # ""
            THEN Return(p, c, Err(AcceptChatCheck(chats[chatId], userId)), <<>>)
          ELSE Await(p, c, "ac_save", AcceptedDoc(WithId(chats, chatId), userId, now))
       /\ UNCHANGED <<sockets, users, chats, messages, onlineUsers, now>>

\* acceptChat, chat.save() and what follows it
AcceptChatSave(p) ==
  /\ pc[p] = "ac_save"
  /\ chats' = SaveChat(chats, doc[p])
  /\ LET r == ToChatResponse(doc[p])
     IN Return(p, call[p], Ok(r), NotifyChatAccepted(r, onlineUsers))
  /\ UNCHANGED <<sockets, users, messages, onlineUsers, now>>

\* chatService.createMessage called on its own, from the call to the await of
\* message.save()
CreateMessageStart(p, chatId, senderId, content) ==
    LET c == [op |-> "createMessage", chatId |-> chatId, senderId |-> senderId,
              content |-> content]
    IN /\ Idle(p)
       /\ IF CreateMessageCheck(chats, chatId, senderId) # ""
            THEN Return(p, c, Err(CreateMessageCheck(chats, chatId, senderId)), <<>>)
            ELSE Await(p, c, "cm_save",
                       [id |-> 0, message |-> NewMessage(chatId, senderId, content, now)])
       /\ UNCHANGED <<sockets, users, chats, messages, onlineUsers, now>>

\* createMessage, message.save() and the return
CreateMessageSave(p) ==
  /\ pc[p] = "cm_save"
  /\ IF ~ContentValid(doc[p].message.content)
       THEN /\ Return(p, call[p], Err("Message validation failed"), <<>>)
            /\ UNCHANGED messages
       ELSE /\ Len(messages) < MaxMessages
            /\ messages' = Append(messages, doc[p].message)
            /\ Return(p, call[p], Ok(ToMessageResponse(messages', Len(messages'))), <<>>)
  /\ UNCHANGED <<sockets, users, chats, onlineUsers, now>>

\* handleMessageSend, from the MESSAGE_SEND event to the await inside
\* createMessage (its validateChatParticipants); a replyToId of 0 is none
HandleMessageSendStart(p, chatId, senderId, content, replyToId) ==
    LET c == [op |-> "MESSAGE_SEND", socket |-> SocketOf(p), chatId |-> chatId,
              senderId |-> senderId, content |-> content, replyToId |-> replyToId]
        s == SocketOf(p)
        e == ValidateChatParticipants(chats, chatId, senderId)
    IN /\ Idle(p)
       /\ IF MissingFields(chatId, content, senderId)
            THEN Return(p, c, Err("Missing required fields"),
                        <<ErrorEvent(s, "Missing required fields")>>)
          ELSE IF e # ""
            THEN Return(p, c, Err(e), ThrownInHandler(s, e))
          ELSE IF chats[chatId].status # "accepted"
            THEN Return(p, c, Err("Chat not accepted"), <<ErrorEvent(s, "Chat not accepted")>>)
          ELSE Await(p, c, "ms_create", [id |-> 0, chat |-> WithId(chats, chatId)])
       /\ UNCHANGED <<sockets, users, chats, messages, onlineUsers, now>>

\* handleMessageSend, createMessage from its read of the chat to the await of
\* message.save()
HandleMessageSendCreate(p) ==
  /\ pc[p] = "ms_create"
  /\ LET e == CreateMessageCheck(chats, call[p].chatId, call[p].senderId)
     IN IF e # ""
          THEN Return(p, call[p], Err(e), ThrownInHandler(SocketOf(p), e))
          ELSE Await(p, call[p], "ms_save",
                     [id |-> 0, chat |-> doc[p].chat,
                      message |-> NewMessage(call[p].chatId, call[p].senderId,
                                             call[p].content, now)])
  /\ UNCHANGED <<sockets, users, chats, messages, onlineUsers, now>>

\* A handler that pushes MESSAGE_RECEIVED before it has awaited the save
HandleMessageSendSavePushFirst(p) ==
  /\ pc[p] = "ms_save"
  /\ IF ~ContentValid(doc[p].message.content)
       THEN /\ Return(p, call[p], Err("Message validation failed"),
                      FanOut("MESSAGE_RECEIVED", doc[p].chat.participants, onlineUsers,
                             Len(messages) + 1)
                        \o ThrownInHandler(SocketOf(p), "Message validation failed"))
            /\ UNCHANGED messages
       ELSE /\ Len(messages) < MaxMessages
            /\ messages' = Append(messages, doc[p].message)
            /\ Return(p, call[p], Ok(ToMessageResponse(messages', Len(messages'))),
                      FanOut("MESSAGE_RECEIVED", doc[p].chat.participants, onlineUsers,
                             Len(messages')))
  /\ UNCHANGED <<sockets, users, chats, onlineUsers, now>>

\* A save that writes over the message the sender has in the chat, if there
\* is one (an upsert keyed by chat and sender)
HandleMessageSendSaveUpsert(p) ==
  /\ pc[p] = "ms_save"
  /\ LET m == doc[p].message
         mine == {i \in DOMAIN messages :
                    messages[i].chatId = m.chatId /\ messages[i].senderId = m.senderId}
     IN IF ~ContentValid(m.content)
          THEN /\ Return(p, call[p], Err("Message validation failed"),
                         ThrownInHandler(SocketOf(p), "Message validation failed"))
               /\ UNCHANGED messages
        ELSE IF mine # {}
          THEN LET i == CHOOSE i \in mine : TRUE
               IN /\ messages' = [messages EXCEPT ![i] = m]
                  /\ Return(p, call[p], Ok(ToMessageResponse(messages', i)),
                            FanOut("MESSAGE_RECEIVED", doc[p].chat.participants,
                                   onlineUsers, i))
        ELSE /\ Len(messages) < MaxMessages
             /\ messages' = Append(messages, m)
             /\ Return(p, call[p], Ok(ToMessageResponse(messages', Len(messages'))),
                       FanOut("MESSAGE_RECEIVED", doc[p].chat.participants, onlineUsers,
                              Len(messages')))
  /\ UNCHANGED <<sockets, users, chats, onlineUsers, now>>

\* handleMessageSend, message.save() and the fan-out of MESSAGE_RECEIVED
HandleMessageSendSave(p) ==
  /\ pc[p] = "ms_save"
  /\ IF ~ContentValid(doc[p].message.content)
       THEN /\ Return(p, call[p], Err("Message validation failed"),
                      ThrownInHandler(SocketOf(p), "Message validation failed"))
            /\ UNCHANGED messages
       ELSE /\ Len(messages) < MaxMessages
            /\ messages' = Append(messages, doc[p].message)
            /\ Return(p, call[p], Ok(ToMessageResponse(messages', Len(messages'))),
                      FanOut("MESSAGE_RECEIVED", doc[p].chat.participants, onlineUsers,
                             Len(messages')))
  /\ UNCHANGED <<sockets, users, chats, onlineUsers, now>>

\* handleMessageDelete, from the MESSAGE_DELETE event to the await of
\* getChatById; a message id of 0 is a missing messageId
HandleMessageDeleteStart(p, messageId, userId) ==
    LET c == [op |-> "MESSAGE_DELETE", socket |-> SocketOf(p), messageId |-> messageId,
              userId |-> userId]
        s == SocketOf(p)
        e == DeleteMessageCheck(messages, messageId, userId)
    IN /\ Idle(p)
       /\ IF messageId = 0 \/ userId = ""
            THEN /\ Return(p, c, Err("Missing required fields"),
                           <<ErrorEvent(s, "Missing required fields")>>)
                 /\ UNCHANGED messages
          ELSE IF e # ""
            THEN /\ Return(p, c, Err(e), <<ErrorEvent(s, e)>>)
                 /\ UNCHANGED messages
          ELSE /\ messages' = MarkDeleted(messages, messageId)
               /\ Await(p, c, "md_chat", [id |-> 0, chatId |-> messages[messageId].chatId])
       /\ UNCHANGED <<sockets, users, chats, onlineUsers, now>>

\* A MESSAGE_DELETED fan-out that drops the presence entries of the chat's
\* participants once it has pushed
HandleMessageDeleteNotifyEvict(p) ==
  /\ pc[p] = "md_chat"
  /\ Return(p, call[p], Ok([id |-> call[p].messageId, chatId |-> doc[p].chatId]),
            FanOut("MESSAGE_DELETED", chats[doc[p].chatId].participants,
                   onlineUsers, call[p].messageId))
  /\ onlineUsers' = SelectSeq(onlineUsers,
                              LAMBDA e : e[1] \notin SeqRange(chats[doc[p].chatId].participants))
  /\ UNCHANGED <<sockets, users, chats, messages, now>>

\* handleMessageDelete, getChatById and the fan-out of MESSAGE_DELETED
HandleMessageDeleteNotify(p) ==
  /\ pc[p] = "md_chat"
  /\ Return(p, call[p], Ok([id |-> call[p].messageId, chatId |-> doc[p].chatId]),
            IF ChatExists(chats, doc[p].chatId)
              THEN FanOut("MESSAGE_DELETED", chats[doc[p].chatId].participants,
                          onlineUsers, call[p].messageId)
              ELSE <<>>)
  /\ UNCHANGED <<sockets, users, chats, messages, onlineUsers, now>>

\* getChatMessages, from the call to the await of Chat.findById
GetChatMessagesStart(p, chatId, page, limit) ==
    LET c == [op |-> "getChatMessages", chatId |-> chatId, page |-> page, limit |-> limit]
    IN /\ Idle(p)
       /\ IF ~IsValidChatId(chatId)
            THEN Return(p, c, Err("Invalid chat ID"), <<>>)
            ELSE Await(p, c, "gm_chat",
                       [id |-> 0, page |-> EffectivePage(page), limit |-> EffectiveLimit(limit)])
       /\ UNCHANGED <<sockets, users, chats, messages, onlineUsers, now>>

\* getChatMessages, from Chat.findById to the await of Message.find
GetChatMessagesChat(p) ==
  /\ pc[p] = "gm_chat"
  /\ IF ~ChatExists(chats, call[p].chatId)
       THEN Return(p, call[p], Err("Chat not found"), <<>>)
       ELSE Await(p, call[p], "gm_find", doc[p])
  /\ UNCHANGED <<sockets, users, chats, messages, onlineUsers, now>>

\* getChatMessages, from Message.find to the await of countDocuments
GetChatMessagesFind(p) ==
  /\ pc[p] = "gm_find"
  /\ Await(p, call[p], "gm_count",
           [doc[p] EXCEPT !.id = 0] @@
           [data |-> PageData(messages, call[p].chatId, doc[p].page, doc[p].limit)])
  /\ UNCHANGED <<sockets, users, chats, messages, onlineUsers, now>>

\* getChatMessages, countDocuments and the return
GetChatMessagesCount(p) ==
  /\ pc[p] = "gm_count"
  /\ LET total == Cardinality(MessagesOfChat(messages, call[p].chatId))
     IN Return(p, call[p],
               Ok([id |-> 0, data |-> doc[p].data, page |-> doc[p].page,
                   limit |-> doc[p].limit, total |-> total,
                   totalPages |-> TotalPages(total, doc[p].limit)]), <<>>)
  /\ UNCHANGED <<sockets, users, chats, messages, onlineUsers, now>>

\* ------------------------------------------------------ specifications
\* The chat lifecycle under concurrent requests: two handlers interleave at
\* their awaits.
Lifecycle(p) ==
  \/ \E from \in UserIdArgs, to \in UserIdArgs : CreateChatRequestStart(p, from, to)
  \/ CreateChatRequestUsers(p)
  \/ CreateChatRequestFind(p)
  \/ CreateChatRequestSave(p)
  \/ \E chatId \in ChatIdArgs, userId \in UserIdArgs : AcceptChatStart(p, chatId, userId)
  \/ AcceptChatSave(p)

Next ==
  \/ Tick
  \/ \E p \in Procs : Lifecycle(p)

Spec == Init /\ [][Next]_vars

\* Chat lifecycle and messaging under concurrent requests.  No operation reads
\* a timestamp, so the clock is left where it is.
Messaging(p) ==
  \/ \E chatId \in ChatIdArgs, senderId \in UserIdArgs, content \in ContentArgs :
        CreateMessageStart(p, chatId, senderId, content)
  \/ CreateMessageSave(p)
  \/ \E chatId \in ChatIdArgs, senderId \in UserIdArgs, content \in ContentArgs :
        HandleMessageSendStart(p, chatId, senderId, content, 0)
  \/ HandleMessageSendCreate(p)
  \/ HandleMessageSendSave(p)

NextMsg ==
  \/ \E p \in Procs : Lifecycle(p)
  \/ \E p \in Procs : Messaging(p)

SpecMsg == Init /\ [][NextMsg]_vars

\* The chat lifecycle with one request at a time: a request starts only when
\* no other is in flight.
AllIdle == \A p \in Procs : Idle(p)

InitSeq ==
  /\ users = UserStore(SeqUsers)
  /\ chats = <<>>
  /\ messages = <<>>
  /\ onlineUsers = <<>>
  /\ sockets = Sockets
  /\ now = 0
  /\ pc = [p \in Procs |-> "idle"]
  /\ call = [p \in Procs |-> NoCall]
  /\ doc = [p \in Procs |-> NoDoc]
  /\ ret = NoReturn
  /\ emitted = <<>>

LifecycleSeq(p) ==
  \/ \E from \in SeqUserIdArgs, to \in SeqUserIdArgs :
        AllIdle /\ CreateChatRequestStart(p, from, to)
  \/ CreateChatRequestUsers(p)
  \/ CreateChatRequestFind(p)
  \/ CreateChatRequestSave(p)
  \/ \E chatId \in SeqChatIdArgs, userId \in SeqUserIdArgs :
        AllIdle /\ AcceptChatStart(p, chatId, userId)
  \/ AcceptChatSave(p)
  \/ \E chatId \in SeqChatIdArgs :
        AllIdle /\ GetChatMessagesStart(p, chatId, <<>>, <<>>)
  \/ GetChatMessagesChat(p)
  \/ GetChatMessagesFind(p)
  \/ GetChatMessagesCount(p)

NextSeq ==
  \/ Tick
  \/ \E p \in Procs : LifecycleSeq(p)

SpecSeq == InitSeq /\ [][NextSeq]_vars

\* Delivery: one request at a time, while sockets send USER_CONNECT and
\* disconnect at any moment, also between the awaits of the request in flight.
\* An event of a socket is served only while its connection is open.
MessageIdArgs == 0 .. MaxMessages + 1

DeliveryRequest(p) ==
  \/ \E from \in UserIdArgs, to \in UserIdArgs :
        AllIdle /\ CreateChatRequestStart(p, from, to)
  \/ CreateChatRequestUsers(p)
  \/ CreateChatRequestFind(p)
  \/ CreateChatRequestSave(p)
  \/ \E chatId \in ChatIdArgs, userId \in UserIdArgs :
        AllIdle /\ AcceptChatStart(p, chatId, userId)
  \/ AcceptChatSave(p)
  \/ \E chatId \in ChatIdArgs, senderId \in UserIdArgs, content \in ContentArgs :
        AllIdle /\ SocketOf(p) \in sockets
                /\ HandleMessageSendStart(p, chatId, senderId, content, 0)
  \/ HandleMessageSendCreate(p)
  \/ HandleMessageSendSave(p)
  \/ \E messageId \in MessageIdArgs, userId \in UserIdArgs :
        AllIdle /\ SocketOf(p) \in sockets /\ HandleMessageDeleteStart(p, messageId, userId)
  \/ HandleMessageDeleteNotify(p)
  \/ \E chatId \in ChatIdArgs :
        AllIdle /\ GetChatMessagesStart(p, chatId, <<>>, <<>>)
  \/ GetChatMessagesChat(p)
  \/ GetChatMessagesFind(p)
  \/ GetChatMessagesCount(p)

Presence ==
  \/ \E s \in Sockets, userId \in Users \cup {""} : UserConnect(s, userId)
  \/ \E s \in Sockets : Disconnect(s)

NextDelivery ==
  \/ \E p \in Procs : DeliveryRequest(p)
  \/ Presence

SpecDelivery == Init /\ [][NextDelivery]_vars

\* Pagination over a stored history.  The store holds two accepted chats and
\* any collection of up to MaxListed messages of theirs; the creation times
\* need not follow the insertion order, since a message takes its createdAt
\* when it is constructed and is inserted when its save completes.
ListedChats ==
  <<[participants |-> <<"u1", "u2">>, status |-> "accepted", initiatedBy |-> "u1",
     createdAt |-> 0, acceptedAt |-> <<0>>],
    [participants |-> <<"u1", "u3">>, status |-> "accepted", initiatedBy |-> "u3",
     createdAt |-> 0, acceptedAt |-> <<0>>]>>

ListedMessage(chatId, t) ==
  NewMessage(chatId, ListedChats[chatId].initiatedBy, Text(0, 2, 0), t)

ListedStores ==
  UNION {[1 .. n -> {ListedMessage(c, t) : c \in 1 .. 2, t \in 0 .. MaxClock}] :
           n \in 0 .. MaxListed}

PageArgs == {<<>>, <<0>>, <<1>>, <<2>>, <<3>>}
LimitArgs == {<<>>, <<0>>, <<1>>, <<2>>, <<150>>}
ListChatIdArgs == {0, 1, 3}

InitList ==
  /\ users = UserStore(SeqUsers)
  /\ chats = ListedChats
  /\ messages \in ListedStores
  /\ onlineUsers = <<>>
  /\ sockets = Sockets
  /\ now = MaxClock
  /\ pc = [p \in Procs |-> "idle"]
  /\ call = [p \in Procs |-> NoCall]
  /\ doc = [p \in Procs |-> NoDoc]
  /\ ret = NoReturn
  /\ emitted = <<>>

Listing(p) ==
  \/ \E chatId \in ListChatIdArgs, page \in PageArgs, limit \in LimitArgs :
        AllIdle /\ GetChatMessagesStart(p, chatId, page, limit)
  \/ GetChatMessagesChat(p)
  \/ GetChatMessagesFind(p)
  \/ GetChatMessagesCount(p)

\* one request at a time: which handler serves it makes no difference
NextList == Listing("p1")

SpecList == InitList /\ [][NextList]_vars

\* The message ledger: one MESSAGE_SEND, createMessage, MESSAGE_DELETE or
\* getChatMessages at
\* a time over a store that holds an accepted chat of u1 and u2 and a pending
\* chat that u3 has requested of u1; u1 and u2 are online or nobody is.
LedgerChats ==
  <<[participants |-> <<"u1", "u2">>, status |-> "accepted", initiatedBy |-> "u1",
     createdAt |-> 0, acceptedAt |-> <<0>>],
    [participants |-> <<"u3", "u1">>, status |-> "pending", initiatedBy |-> "u3",
     createdAt |-> 0, acceptedAt |-> <<>>]>>

LedgerOnline == {<<>>, <<<<"u1", "s1">>, <<"u2", "s2">>>>}

Hi == Text(0, 2, 0)

SendArg(chatId, senderId, content, replyToId) ==
  [chatId |-> chatId, senderId |-> senderId, content |-> content, replyToId |-> replyToId]

\* MESSAGE_SEND payloads: the well-formed ones; contents that are padded, at
\* and over the maximal length, blank and empty; a missing senderId; a
\* malformed and an unknown chat id; senders that are no participant, no user
\* or no id; the pending chat; a replyToId of the first message of the store
\* and one of no message
SendArgs ==
  {SendArg(1, "u1", Hi, 0), SendArg(1, "u2", Hi, 0),
   SendArg(1, "u1", Text(1, 2, 1), 0),
   SendArg(1, "u1", Text(0, MaxContentLength, 0), 0),
   SendArg(1, "u2", Text(1, MaxContentLength, 1), 0),
   SendArg(1, "u1", Text(0, MaxContentLength + 1, 0), 0),
   SendArg(1, "u1", Text(1, 0, 1), 0),
   SendArg(1, "u1", Text(0, 0, 0), 0),
   SendArg(1, "", Hi, 0),
   SendArg(0, "u1", Hi, 0), SendArg(3, "u1", Hi, 0),
   SendArg(1, "u3", Hi, 0), SendArg(1, "u9", Hi, 0), SendArg(1, "bad", Hi, 0),
   SendArg(2, "u1", Hi, 0), SendArg(2, "u3", Hi, 0),
   SendArg(1, "u2", Hi, 1), SendArg(1, "u1", Hi, MaxMessages + 2)}

DeleteUserArgs == {"u1", "u2", "u3", ""}

InitLedger ==
  /\ users = UserStore(SeqUsers)
  /\ chats = LedgerChats
  /\ messages = <<>>
  /\ onlineUsers \in LedgerOnline
  /\ sockets = Sockets
  /\ now = 0
  /\ pc = [p \in Procs |-> "idle"]
  /\ call = [p \in Procs |-> NoCall]
  /\ doc = [p \in Procs |-> NoDoc]
  /\ ret = NoReturn
  /\ emitted = <<>>

Ledger(p) ==
  \/ \E a \in SendArgs :
        AllIdle /\ HandleMessageSendStart(p, a.chatId, a.senderId, a.content, a.replyToId)
  \/ HandleMessageSendCreate(p)
  \/ HandleMessageSendSave(p)
  \/ \E a \in SendArgs :
        AllIdle /\ CreateMessageStart(p, a.chatId, a.senderId, a.content)
  \/ CreateMessageSave(p)
  \/ \E messageId \in MessageIdArgs, userId \in DeleteUserArgs :
        AllIdle /\ HandleMessageDeleteStart(p, messageId, userId)
  \/ HandleMessageDeleteNotify(p)
  \/ \E chatId \in SeqChatIdArgs :
        AllIdle /\ GetChatMessagesStart(p, chatId, <<1>>, <<DefaultLimit>>)
  \/ GetChatMessagesChat(p)
  \/ GetChatMessagesFind(p)
  \/ GetChatMessagesCount(p)

NextLedger == \E p \in Procs : Ledger(p)

SpecLedger == InitLedger /\ [][NextLedger]_vars

\* A conversation from its request to its history: createChatRequest,
\* acceptChat, createMessage and getChatMessages(page 1, limit 50) between the
\* two users, one call at a time.
Conversation(p) ==
  \/ \E from \in Users, to \in Users :
        AllIdle /\ CreateChatRequestStart(p, from, to)
  \/ CreateChatRequestUsers(p)
  \/ CreateChatRequestFind(p)
  \/ CreateChatRequestSave(p)
  \/ \E chatId \in ChatIdArgs, userId \in Users :
        AllIdle /\ AcceptChatStart(p, chatId, userId)
  \/ AcceptChatSave(p)
  \/ \E chatId \in ChatIdArgs, senderId \in Users :
        AllIdle /\ CreateMessageStart(p, chatId, senderId, Hi)
  \/ CreateMessageSave(p)
  \/ \E chatId \in ChatIdArgs :
        AllIdle /\ GetChatMessagesStart(p, chatId, <<1>>, <<DefaultLimit>>)
  \/ GetChatMessagesChat(p)
  \/ GetChatMessagesFind(p)
  \/ GetChatMessagesCount(p)

NextConversation == \E p \in Procs : Conversation(p)

SpecConversation == Init /\ [][NextConversation]_vars

\* Entering: concurrent enter calls over a store that holds alice, who has a
\* password, and bob, who has none yet.  The arguments are their names, a
\* name that is not taken, plain and with blanks around it, and a blank name;
\* two passwords, one that is too short and none.
EnteredUsers ==
  ("u1" :> UserDoc("alice", <<Hash("secret1")>>, 0)) @@ ("u2" :> UserDoc("bob", <<>>, 0))

NameArgs == {Name(0, "alice"), Name(0, "bob"), Name(0, "carol"), Name(1, "carol"), Name(1, "")}
PasswordArgs == {"secret1", "other22", "short", ""}

InitUsers ==
  /\ users = EnteredUsers
  /\ chats = <<>>
  /\ messages = <<>>
  /\ onlineUsers = <<>>
  /\ sockets = Sockets
  /\ now = 0
  /\ pc = [p \in Procs |-> "idle"]
  /\ call = [p \in Procs |-> NoCall]
  /\ doc = [p \in Procs |-> NoDoc]
  /\ ret = NoReturn
  /\ emitted = <<>>

Entering(p) ==
  \/ \E username \in NameArgs, password \in PasswordArgs : EnterStart(p, username, password)
  \/ EnterHash(p)
  \/ EnterSave(p)
  \/ EnterClaimHash(p)
  \/ EnterClaimSave(p)
  \/ EnterCompare(p)

NextUsers == \E p \in Procs : Entering(p)

SpecUsers == InitUsers /\ [][NextUsers]_vars

\* ================================================================ claims
\* the chats stored for the unordered pair {a, b}
ChatsOfPair(cs, a, b) ==
  {i \in DOMAIN cs : a \in SeqRange(cs[i].participants) /\ b \in SeqRange(cs[i].participants)}

\* process p's acceptChat completes its save and returns in this step
AcceptSaves(p) == pc[p] = "ac_save" /\ pc'[p] = "idle"

\* C1: in every reachable state (two createChatRequest calls may interleave)
\* at most one chat is stored per unordered pair of users, and a
\* createChatRequest on two distinct stored users returns a chat of that pair,
\* never an error.
C1_OneChatPerPair ==
  /\ \A i, j \in DOMAIN chats :
       SeqRange(chats[i].participants) = SeqRange(chats[j].participants) => i = j
  /\ (/\ ret.call.op = "createChatRequest"
      /\ ret.call.fromUserId # ret.call.toUserId
      /\ {ret.call.fromUserId, ret.call.toUserId} \subseteq DOMAIN users)
     => (/\ ret.ok
         /\ ret.value.id \in ChatsOfPair(chats, ret.call.fromUserId, ret.call.toUserId))

\* C2: with one request at a time, a createChatRequest that returns a chat
\* either finds no chat of the pair, stores the pair's first chat and returns
\* it, or returns the one chat stored for the unordered pair, whatever its
\* status and whichever user asks, and leaves the collection as it was; so two
\* sequential calls on a pair return the same id.
C2_RequestIdempotent ==
  [][(ret'.call.op = "createChatRequest" /\ ret'.ok) =>
       LET old == ChatsOfPair(chats, ret'.call.fromUserId, ret'.call.toUserId)
       IN IF old = {}
            THEN /\ Len(chats') = Len(chats) + 1
                 /\ SubSeq(chats', 1, Len(chats)) = chats
                 /\ ret'.value.id = Len(chats')
            ELSE /\ chats' = chats
                 /\ old = {ret'.value.id}
                 /\ ret'.value = WithId(chats, ret'.value.id)]_vars

\* C2 witness: a request by the non-initiator on an accepted chat returned it
C2_Witness ==
  /\ ret.call.op = "createChatRequest"
  /\ ret.ok
  /\ ret.value.status = "accepted"
  /\ ret.call.fromUserId # ret.value.initiatedBy

\* C3: in every step, every stored chat stays stored and its status either
\* stays what it was or goes from pending to accepted or rejected.
C3_StatusMonotonic ==
  [][\A i \in DOMAIN chats :
       /\ i \in DOMAIN chats'
       /\ chats'[i].status # chats[i].status =>
            (chats[i].status = "pending" /\ chats'[i].status \in {"accepted", "rejected"})]_vars

\* C3 witness: an acceptChat returned success while another acceptChat on the
\* same chat, which read it pending, has its save still to come
C3_Witness ==
  /\ ret.call.op = "acceptChat"
  /\ ret.ok
  /\ \E q \in Procs : pc[q] = "ac_save" /\ doc[q].id = ret.value.id
  /\ chats[ret.value.id].status = "accepted"

\* C4: every acceptChat call that returns success is the call that takes the
\* chat from pending to accepted (so of the calls on one chat exactly one
\* succeeds, and every other one fails).
C4_OneAcceptSucceeds ==
  [][\A p \in Procs :
       AcceptSaves(p) =>
         (/\ ret'.ok
          /\ chats[doc[p].id].status = "pending"
          /\ chats'[doc[p].id].status = "accepted")]_vars

\* C5: an acceptChat whose userId is the initiatedBy of the chat it names fails
\* with "Cannot accept your own chat request" (the Forbidden case), whatever
\* the chat's status, and the step leaves the chats as they were.
C5_InitiatorCannotAccept ==
  [][(/\ ret'.call.op = "acceptChat"
      /\ ret'.call.chatId \in DOMAIN chats
      /\ chats[ret'.call.chatId].initiatedBy = ret'.call.userId)
     => (/\ ~ret'.ok
         /\ ret'.error = "Cannot accept your own chat request"
         /\ chats' = chats)]_vars

\* C5 witness: the initiator's acceptChat on an accepted chat was refused
C5_Witness ==
  /\ ret.call.op = "acceptChat"
  /\ ret.error = "Cannot accept your own chat request"
  /\ chats[ret.call.chatId].status = "accepted"

\* C6: an acceptChat by the invited participant on a chat that is accepted
\* fails with "Chat is already accepted" (the Conflict case), and no step of
\* an acceptChat changes a stored chat whose status is not pending.
C6_AcceptLeavesNonPending ==
  [][/\ (/\ ret'.call.op = "acceptChat"
         /\ ret'.call.chatId \in DOMAIN chats
         /\ chats[ret'.call.chatId].status = "accepted"
         /\ ret'.call.userId \in SeqRange(chats[ret'.call.chatId].participants)
         /\ ret'.call.userId # chats[ret'.call.chatId].initiatedBy
         /\ pc' = pc)
        => (~ret'.ok /\ ret'.error = "Chat is already accepted")
     /\ \A p \in Procs :
          (AcceptSaves(p) /\ chats[doc[p].id].status # "pending") => chats' = chats]_vars

\* C10: every stored chat has exactly two participants, the two differ,
\* initiatedBy is one of them, and no step changes the participants or the
\* initiatedBy of a stored chat.
C10_ParticipantsFixed ==
  [][/\ \A i \in DOMAIN chats' :
          /\ Len(chats'[i].participants) = 2
          /\ chats'[i].participants[1] # chats'[i].participants[2]
          /\ chats'[i].initiatedBy \in SeqRange(chats'[i].participants)
     /\ \A i \in DOMAIN chats :
          /\ i \in DOMAIN chats'
          /\ chats'[i].participants = chats[i].participants
          /\ chats'[i].initiatedBy = chats[i].initiatedBy]_vars

\* C10 witness: two chats are stored and an acceptChat has just saved one
C10_Witness ==
  /\ Len(chats) = 2
  /\ ret.call.op = "acceptChat"
  /\ ret.ok

\* the two ways a message is sent: chatService.createMessage and the
\* MESSAGE_SEND event
SendOps == {"createMessage", "MESSAGE_SEND"}

\* process p's send completes its message.save() and returns in this step
SendSaves(p) == pc[p] \in {"cm_save", "ms_save"} /\ pc'[p] = "idle"

\* C7: in every reachable state every stored message names a stored chat whose
\* status is accepted.
C7_MessagesInAcceptedChats ==
  \A m \in DOMAIN messages :
    /\ messages[m].chatId \in DOMAIN chats
    /\ chats[messages[m].chatId].status = "accepted"

\* C7 witness: a MESSAGE_SEND stored a message while a chat is still pending
C7_Witness ==
  /\ ret.call.op = "MESSAGE_SEND"
  /\ ret.ok
  /\ Len(messages) >= 1
  /\ \E c \in DOMAIN chats : chats[c].status = "pending"

\* C8: the senderId of every stored message is one of the two participants of
\* the message's chat, and a send whose sender is not a participant of the
\* chat it names fails and leaves the stored messages as they were.
C8_SenderIsParticipant ==
  [][/\ \A m \in DOMAIN messages' :
          messages'[m].senderId \in SeqRange(chats'[messages'[m].chatId].participants)
     /\ (/\ ret'.call.op \in SendOps
         /\ ret'.call.chatId \in DOMAIN chats
         /\ ret'.call.senderId \notin SeqRange(chats[ret'.call.chatId].participants))
        => (~ret'.ok /\ messages' = messages)]_vars

\* C8 witness: a send by a user outside an accepted chat was refused while a
\* message of a participant is stored
C8_Witness ==
  /\ ret.call.op \in SendOps
  /\ ret.error = "User is not a participant in this chat"
  /\ chats[ret.call.chatId].status = "accepted"
  /\ Len(messages) >= 1

\* C9: a send by a participant that returns while the chat is pending fails
\* with the not-accepted error and stores nothing; an acceptChat that returns
\* success leaves the chat accepted; and a send by a participant issued on an
\* accepted chat is not refused, and with valid content its save succeeds and
\* stores exactly one message, the one sent.
C9_SendNeedsAccepted ==
  [][/\ (/\ ret'.call.op \in SendOps
         /\ ret'.call.chatId \in DOMAIN chats
         /\ ret'.call.senderId \in SeqRange(chats[ret'.call.chatId].participants)
         /\ chats[ret'.call.chatId].status = "pending")
        => (/\ ~ret'.ok
            /\ ret'.error \in {"Cannot send messages to a chat that is not accepted",
                               "Chat not accepted"}
            /\ messages' = messages)
     /\ (ret'.call.op = "acceptChat" /\ ret'.ok)
        => chats'[ret'.call.chatId].status = "accepted"
     /\ (/\ ret'.call.op \in SendOps
         /\ ret'.call.chatId \in DOMAIN chats
         /\ ret'.call.senderId \in SeqRange(chats[ret'.call.chatId].participants)
         /\ chats[ret'.call.chatId].status = "accepted"
         /\ ret'.call.content.body \in 1 .. MaxContentLength)
        => (/\ \E p \in Procs : SendSaves(p)
            /\ ret'.ok
            /\ Len(messages') = Len(messages) + 1
            /\ SubSeq(messages', 1, Len(messages)) = messages
            /\ messages'[Len(messages')].chatId = ret'.call.chatId
            /\ messages'[Len(messages')].senderId = ret'.call.senderId)]_vars

\* C9 witness: the initiator's createMessage on an accepted chat stored its
\* message
C9_Witness ==
  /\ ret.call.op = "createMessage"
  /\ ret.ok
  /\ Len(messages) = 1
  /\ ret.call.senderId = chats[ret.call.chatId].initiatedBy
  /\ messages[1].senderId = ret.call.senderId

\* pages 1, 2, ..., n of chat c with limit l, concatenated in that order
PagesUp(ms, c, l, n) ==
  LET F[k \in 0 .. n] == IF k = 0 THEN <<>> ELSE F[k - 1] \o PageData(ms, c, k, l)
  IN F[n]

\* pages n, n-1, ..., 1 of chat c with limit l, concatenated in that order
PagesDown(ms, c, l, n) ==
  LET F[k \in 0 .. n] == IF k = 0 THEN <<>> ELSE PageData(ms, c, k, l) \o F[k - 1]
  IN F[n]

\* q holds every message of chat c exactly once, oldest first
IsHistory(q, ms, c) ==
  /\ Len(q) = Cardinality(MessagesOfChat(ms, c))
  /\ {q[k].id : k \in DOMAIN q} = MessagesOfChat(ms, c)
  /\ \A k \in 1 .. Len(q) - 1 : q[k].createdAt <= q[k + 1].createdAt

\* C12 (as stated): for every chat and every limit, the pages 1..N of the
\* stored history, N = ceil(M / L), concatenated in page order, are the chat's
\* messages oldest first, each exactly once.
C12_PagesInPageOrder ==
  \A c \in DOMAIN chats, l \in 1 .. MaxListed + 1 :
    LET m == Cardinality(MessagesOfChat(messages, c))
    IN IsHistory(PagesUp(messages, c, EffectiveLimit(<<l>>),
                         TotalPages(m, EffectiveLimit(<<l>>))), messages, c)

\* C12 (amended): page 1 holds the newest messages, so it is the pages
\* N, N-1, ..., 1, concatenated in that order, that are the chat's messages
\* oldest first, each exactly once.
C12_PagesInReversePageOrder ==
  \A c \in DOMAIN chats, l \in 1 .. MaxListed + 1 :
    LET m == Cardinality(MessagesOfChat(messages, c))
    IN IsHistory(PagesDown(messages, c, EffectiveLimit(<<l>>),
                           TotalPages(m, EffectiveLimit(<<l>>))), messages, c)

\* C12 witness: a getChatMessages returned a second page that holds messages
\* older than some message of the first page
C12_Witness ==
  /\ ret.call.op = "getChatMessages"
  /\ ret.ok
  /\ ret.value.page = 2
  /\ ret.value.totalPages >= 2
  /\ \E k \in DOMAIN ret.value.data :
       \E i \in MessagesOfChat(messages, ret.call.chatId) :
         messages[i].createdAt > ret.value.data[k].createdAt

\* C13: the data of every getChatMessages return is in non-decreasing
\* createdAt order and holds only messages of the requested chat.
C13_PageOldestFirst ==
  (ret.call.op = "getChatMessages" /\ ret.ok) =>
     /\ \A k \in 1 .. Len(ret.value.data) - 1 :
          ret.value.data[k].createdAt <= ret.value.data[k + 1].createdAt
     /\ \A k \in DOMAIN ret.value.data :
          /\ ret.value.data[k].chatId = ret.call.chatId
          /\ ret.value.data[k].id \in MessagesOfChat(messages, ret.call.chatId)

\* C13 witness: a page of two messages of different createdAt was returned
\* while the store also holds a message of the other chat
C13_Witness ==
  /\ ret.call.op = "getChatMessages"
  /\ ret.ok
  /\ Len(ret.value.data) >= 2
  /\ ret.value.data[1].createdAt < ret.value.data[2].createdAt
  /\ \E i \in DOMAIN messages : messages[i].chatId # ret.call.chatId

\* the events of type t among ev
EventsOfType(ev, t) == {k \in DOMAIN ev : ev[k].type = t}

\* ev is one event of type t about ref for each of the users us that has a
\* presence entry in m, on the socket of that entry, and nothing else
OnePerResolved(ev, t, ref, us, m) ==
  /\ \A k \in DOMAIN ev : ev[k].type = t /\ ev[k].ref = ref
  /\ Len(ev) = Cardinality({u \in us : OnlineGet(m, u) # ""})
  /\ \A s \in Sockets :
       Cardinality({k \in DOMAIN ev : ev[k].to = s}) =
         Cardinality({u \in us : OnlineGet(m, u) = s})

\* C11: the step in which a MESSAGE_SEND stores its message pushes, for each
\* participant of the chat that has a presence entry at that moment, exactly
\* one MESSAGE_RECEIVED about the stored message to the socket of the entry,
\* and nothing to anyone else.
C11_DeliveredToResolved ==
  [][(ret'.call.op = "MESSAGE_SEND" /\ ret'.ok) =>
       /\ Len(messages') = Len(messages) + 1
       /\ ret'.value.id = Len(messages')
       /\ OnePerResolved(emitted', "MESSAGE_RECEIVED", Len(messages'),
                         SeqRange(chats[ret'.call.chatId].participants), onlineUsers')]_vars

\* C11 witness: a message was stored and pushed once, the sender having a
\* presence entry and the other participant none
C11_Witness ==
  /\ ret.call.op = "MESSAGE_SEND"
  /\ ret.ok
  /\ Len(emitted) = 1
  /\ emitted[1].to = OnlineGet(onlineUsers, ret.call.senderId)
  /\ \E u \in SeqRange(chats[ret.call.chatId].participants) : OnlineGet(onlineUsers, u) = ""

\* C14: a USER_CONNECT of user u on socket e leaves u resolving to e, by a
\* single entry, whatever u resolved to before; and after a disconnect of e
\* that directly follows, u does not resolve.
C14_LastWriteWins ==
  [][/\ (ret'.call.op = "USER_CONNECT" /\ ret'.call.userId # "") =>
          /\ OnlineGet(onlineUsers', ret'.call.userId) = ret'.call.socketId
          /\ Cardinality({i \in DOMAIN onlineUsers' :
                            onlineUsers'[i][1] = ret'.call.userId}) = 1
     /\ (/\ ret.call.op = "USER_CONNECT"
         /\ ret.call.userId # ""
         /\ ret'.call.op = "disconnect"
         /\ ret'.call.socketId = ret.call.socketId) =>
          OnlineGet(onlineUsers', ret.call.userId) = ""]_vars

C16_AcceptedToBoth ==
  [][(ret'.call.op = "acceptChat") =>
       IF ret'.ok
         THEN /\ ret'.value.status = "accepted"
              /\ ret'.value.id = ret'.call.chatId
              /\ OnePerResolved(emitted', "CHAT_ACCEPTED", ret'.call.chatId,
                                SeqRange(chats[ret'.call.chatId].participants), onlineUsers')
         ELSE emitted' = <<>>]_vars

\* C16 witness: an acceptChat succeeded and pushed CHAT_ACCEPTED to two sockets
C16_Witness ==
  /\ ret.call.op = "acceptChat"
  /\ ret.ok
  /\ Len(emitted) = 2
  /\ emitted[1].to # emitted[2].to

\* C17: a MESSAGE_RECEIVED is pushed only in the step that stores the message
\* it is about (so never later, and never by a USER_CONNECT or a disconnect);
\* a stored message stays stored; and a getChatMessages whose limit covers the
\* chat returns every stored message of the chat.
C17_NoReplayButListed ==
  [][/\ \A k \in EventsOfType(emitted', "MESSAGE_RECEIVED") :
          /\ Len(messages') = Len(messages) + 1
          /\ emitted'[k].ref = Len(messages')
     /\ ret'.call.op \in {"USER_CONNECT", "disconnect"} => emitted' = <<>>
     /\ \A i \in DOMAIN messages :
          /\ i \in DOMAIN messages'
          /\ messages'[i].chatId = messages[i].chatId
     /\ (/\ ret'.call.op = "getChatMessages"
         /\ ret'.ok
         /\ ret'.value.page = 1
         /\ ret'.value.total <= ret'.value.limit) =>
          {ret'.value.data[k].id : k \in DOMAIN ret'.value.data} =
            MessagesOfChat(messages', ret'.call.chatId)]_vars

\* C17 witness: no socket has closed and a participant of the chat has no
\* presence entry, so it never had one; a getChatMessages on the chat
\* returned the message that was sent meanwhile
C17_Witness ==
  /\ ret.call.op = "getChatMessages"
  /\ ret.ok
  /\ Len(ret.value.data) >= 1
  /\ sockets = Sockets
  /\ \E u \in SeqRange(chats[ret.call.chatId].participants) :
       /\ u # ret.value.data[1].senderId
       /\ OnlineGet(onlineUsers, u) = ""

\* C18: a step that ends in a delivery (the notify of createChatRequest and of
\* acceptChat, the fan-out of MESSAGE_SEND and of MESSAGE_DELETE) leaves the
\* users, the presence map and the open sockets as they were, and changes the
\* chats and the messages by nothing but the one store write the operation
\* made before it delivered: the new chat, the accepted chat's status and
\* acceptedAt, the new message, nothing for MESSAGE_DELETE.
C18_DeliveryFrame ==
  [][(ret'.ok /\ ret'.call.op \in {"createChatRequest", "acceptChat",
                                   "MESSAGE_SEND", "MESSAGE_DELETE"}) =>
       /\ users' = users
       /\ onlineUsers' = onlineUsers
       /\ sockets' = sockets
       /\ ret'.call.op = "createChatRequest" =>
            /\ messages' = messages
            /\ \/ chats' = chats
               \/ Len(chats') = Len(chats) + 1 /\ SubSeq(chats', 1, Len(chats)) = chats
       /\ ret'.call.op = "acceptChat" =>
            /\ messages' = messages
            /\ chats' = [chats EXCEPT ![ret'.call.chatId].status = "accepted",
                                      ![ret'.call.chatId].acceptedAt =
                                          chats'[ret'.call.chatId].acceptedAt]
       /\ ret'.call.op = "MESSAGE_SEND" =>
            /\ chats' = chats
            /\ Len(messages') = Len(messages) + 1
            /\ SubSeq(messages', 1, Len(messages)) = messages
       /\ ret'.call.op = "MESSAGE_DELETE" =>
            /\ chats' = chats
            /\ messages' = messages]_vars

\* C18 witness: the fan-out of a MESSAGE_DELETE pushed MESSAGE_DELETED to two
\* sockets
C18_Witness ==
  /\ ret.call.op = "MESSAGE_DELETE"
  /\ ret.ok
  /\ Len(emitted) = 2
  /\ emitted[1].type = "MESSAGE_DELETED"
  /\ emitted[1].to # emitted[2].to

\* C19: a createChatRequest of a user with itself fails with the
\* InvalidArgument errors ("Cannot create chat with yourself", or "Invalid user
\* ID" when the id is malformed), one with two different ids of which one is
\* no stored user fails with "One or both users do not exist" (NotFound); the
\* step stores no chat and pushes nothing, and no stored chat ever has a
\* participant that is no stored user.
C19_RequestRejected ==
  [][/\ (ret'.call.op = "createChatRequest"
         /\ ret'.call.fromUserId = ret'.call.toUserId) =>
          /\ ~ret'.ok
          /\ ret'.error \in {"Cannot create chat with yourself", "Invalid user ID"}
          /\ chats' = chats
          /\ emitted' = <<>>
     /\ (ret'.call.op = "createChatRequest"
         /\ ret'.call.fromUserId # ret'.call.toUserId
         /\ ~({ret'.call.fromUserId, ret'.call.toUserId} \subseteq DOMAIN users)) =>
          /\ ~ret'.ok
          /\ ret'.error \in {"One or both users do not exist", "Invalid user ID"}
          /\ chats' = chats
          /\ emitted' = <<>>
     /\ \A i \in DOMAIN chats' : SeqRange(chats'[i].participants) \subseteq DOMAIN users']_vars

\* C19 witness: a request to a stored user that has a presence entry, by a
\* well-formed id of no user, was refused
C19_Witness ==
  /\ ret.call.op = "createChatRequest"
  /\ ret.error = "One or both users do not exist"
  /\ ret.call.fromUserId \notin DOMAIN users
  /\ OnlineGet(onlineUsers, ret.call.toUserId) # ""

\* C20: an acceptChat on a chat id that names no chat fails with "Chat not
\* found" (NotFound), one by a user that is no participant of the chat fails
\* with "User is not a participant in this chat" (Forbidden); the step changes
\* no chat and pushes nothing.
C20_AcceptRejected ==
  [][/\ (ret'.call.op = "acceptChat"
         /\ ret'.call.chatId >= 1
         /\ ret'.call.chatId \notin DOMAIN chats) =>
          /\ ~ret'.ok
          /\ ret'.error = "Chat not found"
          /\ chats' = chats
          /\ emitted' = <<>>
     /\ (ret'.call.op = "acceptChat"
         /\ ret'.call.chatId \in DOMAIN chats
         /\ ret'.call.userId \notin SeqRange(chats[ret'.call.chatId].participants)) =>
          /\ ~ret'.ok
          /\ ret'.error = "User is not a participant in this chat"
          /\ chats' = chats
          /\ emitted' = <<>>]_vars

\* C20 witness: an acceptChat by a user outside a pending chat was refused
\* while both participants have a presence entry
C20_Witness ==
  /\ ret.call.op = "acceptChat"
  /\ ret.error = "User is not a participant in this chat"
  /\ chats[ret.call.chatId].status = "pending"
  /\ \A u \in SeqRange(chats[ret.call.chatId].participants) : OnlineGet(onlineUsers, u) # ""

\* C21: after every step, each stored chat has an acceptedAt exactly when its
\* status is accepted; the save of an acceptChat leaves the chat accepted with
\* an acceptedAt; and a step in which the acceptedAt of a stored chat is set
\* or changes is the save of an acceptChat.
C21_AcceptedAtIffAccepted ==
  [][/\ \A i \in DOMAIN chats' :
          (chats'[i].acceptedAt # <<>>) <=> (chats'[i].status = "accepted")
     /\ \A p \in Procs :
          AcceptSaves(p) =>
            /\ chats'[doc[p].id].status = "accepted"
            /\ chats'[doc[p].id].acceptedAt # <<>>
            /\ doc[p].initiatedBy # call[p].userId
     /\ \A i \in DOMAIN chats' :
          (IF i \in DOMAIN chats THEN chats'[i].acceptedAt # chats[i].acceptedAt
                                 ELSE chats'[i].acceptedAt # <<>>)
          => \E p \in Procs : AcceptSaves(p) /\ doc[p].id = i]_vars

\* C21 witness: one chat of a pair is accepted, with its acceptedAt, while a
\* second chat is pending without one
C21_Witness ==
  \E i, j \in DOMAIN chats :
    /\ chats[i].status = "accepted" /\ chats[i].acceptedAt # <<>>
    /\ chats[j].status = "pending" /\ chats[j].acceptedAt = <<>>

\* C22: a MESSAGE_DELETE of a stored message by a user who is not its sender
\* fails with "Only the sender can delete a message" and leaves the store as
\* it is; one by its sender succeeds and returns the chatId of the message;
\* and every page getChatMessages returns holds no message that has been
\* deleted (the response of a message carries no deletion mark, so a deleted
\* message can only be left out).
C22_DeleteBySenderOnly ==
  [][/\ \A p \in Procs, m \in DOMAIN messages, u \in DeleteUserArgs \ {""} :
          (Idle(p) /\ call'[p] = NoCall /\ ret'.call.op = "MESSAGE_DELETE"
             /\ ret'.call.messageId = m /\ ret'.call.userId = u
             /\ messages[m].senderId # u)
          => /\ ~ret'.ok
             /\ ret'.error = "Only the sender can delete a message"
             /\ messages' = messages
     /\ \A p \in Procs :
          (pc[p] = "idle" /\ pc'[p] = "md_chat")
          => /\ messages[call'[p].messageId].senderId = call'[p].userId
             /\ messages'[call'[p].messageId].deleted
     /\ \A p \in Procs :
          (pc[p] = "md_chat" /\ pc'[p] = "idle")
          => /\ ret'.ok
             /\ ret'.value.chatId = messages[call[p].messageId].chatId
     /\ (ret'.call.op = "getChatMessages" /\ ret'.ok)
          => \A k \in DOMAIN ret'.value.data :
               ~messages'[ret'.value.data[k].id].deleted]_vars

\* C23: a MESSAGE_SEND whose replyToId names no stored message of the same
\* chat returns an error and stores nothing; one that succeeds with a replyToId
\* of a stored message of the same chat stores the new message with that
\* replyTo.
C23_ReplyToChecked ==
  [][(ret'.call.op = "MESSAGE_SEND" /\ ret'.call.replyToId # 0) =>
       LET r == ret'.call.replyToId
           found == r \in DOMAIN messages /\ messages[r].chatId = ret'.call.chatId
       IN /\ ~found => (~ret'.ok /\ messages' = messages)
          /\ (found /\ ret'.ok) =>
               /\ Len(messages') = Len(messages) + 1
               /\ messages'[Len(messages')].replyTo = r]_vars

\* C24: the response to an acceptChat refused for a non-participant or for
\* the initiator has status 403; to an acceptChat or a getChatMessages that
\* finds no chat, 404; to an acceptChat of a chat that is not pending, 409; to
\* a createChatRequest with a malformed id or with twice the same id, 400.
C24_HttpStatusOfFailure ==
  /\ (ret.call.op = "acceptChat"
        /\ ret.error \in {"User is not a participant in this chat",
                          "Cannot accept your own chat request"})
       => HttpStatus(ret) = 403
  /\ (ret.call.op \in {"acceptChat", "getChatMessages"} /\ ret.error = "Chat not found")
       => HttpStatus(ret) = 404
  /\ (ret.call.op = "acceptChat" /\ ret.error = "Chat is already accepted")
       => HttpStatus(ret) = 409
  /\ (ret.call.op = "createChatRequest"
        /\ ret.error \in {"Invalid user ID", "Cannot create chat with yourself"})
       => HttpStatus(ret) = 400

SocketOps == {"MESSAGE_SEND", "MESSAGE_DELETE"}

\* C25: when a MESSAGE_SEND or a MESSAGE_DELETE ends in an error, the step
\* that ends it pushes at least one event, every event it pushes is an ERROR
\* to the socket the event came from, and it leaves the message store, the set
\* of open sockets (the sender's among them) and the presence map as they
\* are; the steps of a send before its save store nothing either.
C25_FailureYieldsError ==
  [][/\ (ret'.call.op \in SocketOps /\ ~ret'.ok) =>
          /\ Len(emitted') >= 1
          /\ \A k \in DOMAIN emitted' :
               emitted'[k].type = "ERROR" /\ emitted'[k].to = ret'.call.socket
          /\ messages' = messages
          /\ sockets' = sockets
          /\ ret'.call.socket \in sockets'
          /\ onlineUsers' = onlineUsers
     /\ \A p \in Procs :
          (pc'[p] # pc[p] /\ pc'[p] \in {"ms_create", "ms_save"}) => messages' = messages]_vars

\* C25 witness: a MESSAGE_SEND with a blank content has failed at the save,
\* with the ERROR pushed to its socket, while users are online
C25_Witness ==
  /\ ret.call.op = "MESSAGE_SEND"
  /\ ret.error = "Message validation failed"
  /\ onlineUsers # <<>>
  /\ messages = <<>>
  /\ \E k \in DOMAIN emitted : emitted[k] = ErrorEvent(ret.call.socket, ret.error)

\* C26: with alice = u1 and bob = u2 and calls made one at a time: on an empty
\* chat store createChatRequest(alice, bob) returns a pending chat; acceptChat
\* of that pending chat by bob returns it accepted, with an acceptedAt;
\* createMessage(chat, alice, "hi") on the accepted chat succeeds and stores
\* the message; and getChatMessages(chat, page 1, limit 50), when that message
\* is the one the store holds, returns exactly one message, of content "hi"
\* and senderId alice.
C26_EndToEnd ==
  [][/\ (ret'.call = [op |-> "createChatRequest", fromUserId |-> "u1", toUserId |-> "u2"]
           /\ chats = <<>>)
          => /\ ret'.ok
             /\ ret'.value.status = "pending"
             /\ chats' = <<NewChat("u1", "u2", now)>>
     /\ (ret'.call = [op |-> "acceptChat", chatId |-> 1, userId |-> "u2"]
           /\ chats = <<NewChat("u1", "u2", 0)>>)
          => /\ ret'.ok
             /\ ret'.value.status = "accepted"
             /\ ret'.value.acceptedAt # <<>>
             /\ chats'[1].status = "accepted"
     /\ (ret'.call = [op |-> "createMessage", chatId |-> 1, senderId |-> "u1",
                      content |-> Hi]
           /\ Len(chats) >= 1
           /\ chats[1].participants = <<"u1", "u2">>
           /\ chats[1].status = "accepted"
           /\ messages = <<>>)
          => /\ ret'.ok
             /\ Len(messages') = 1
             /\ messages'[1].chatId = 1
             /\ messages'[1].senderId = "u1"
             /\ messages'[1].content = Hi
     /\ (ret'.call = [op |-> "getChatMessages", chatId |-> 1, page |-> <<1>>,
                      limit |-> <<50>>]
           /\ Len(messages) = 1
           /\ messages[1].chatId = 1
           /\ messages[1].senderId = "u1"
           /\ messages[1].content = Hi)
          => /\ ret'.ok
             /\ Len(ret'.value.data) = 1
             /\ ret'.value.data[1].content = Hi
             /\ ret'.value.data[1].senderId = "u1"
             /\ ret'.value.total = 1]_vars

\* C26 witness: the history of the chat that alice requested and bob accepted
\* has been returned, holding alice's "hi"
C26_Witness ==
  /\ ret.call = [op |-> "getChatMessages", chatId |-> 1, page |-> <<1>>, limit |-> <<50>>]
  /\ ret.ok
  /\ Len(chats) = 1
  /\ chats[1].initiatedBy = "u1"
  /\ chats[1].participants = <<"u1", "u2">>
  /\ chats[1].status = "accepted"
  /\ chats[1].acceptedAt # <<>>
  /\ Len(ret.value.data) = 1
  /\ ret.value.data[1].senderId = "u1"
  /\ ret.value.data[1].content = Hi

\* C27: a getChatMessages that succeeds returns as page max(1, page), or 1
\* when page is absent, and as limit the limit clamped into 1 .. 100, or 50
\* when limit is absent; so the returned limit is in 1 .. 100 and the returned
\* page is at least 1.
C27_EffectivePageAndLimit ==
  (ret.call.op = "getChatMessages" /\ ret.ok) =>
    /\ ret.value.page = (IF ret.call.page = <<>> THEN 1 ELSE Max(1, ret.call.page[1]))
    /\ ret.value.limit = (IF ret.call.limit = <<>> THEN 50
                          ELSE Min(100, Max(1, ret.call.limit[1])))
    /\ ret.value.limit \in 1 .. 100
    /\ ret.value.page >= 1

\* C28: a createMessage or MESSAGE_SEND whose content, once trimmed, is empty
\* or longer than 5000 characters ends in an error, stores no message and
\* pushes no MESSAGE_RECEIVED; and the content of every stored message is
\* trimmed and 1 to 5000 characters long.
C28_ContentBounds ==
  [][/\ (ret'.call.op \in SendOps
           /\ (Trim(ret'.call.content).body = 0
                 \/ Trim(ret'.call.content).body > MaxContentLength))
          => /\ ~ret'.ok
             /\ messages' = messages
             /\ \A k \in DOMAIN emitted' : emitted'[k].type # "MESSAGE_RECEIVED"
     /\ \A p \in Procs :
          (pc'[p] # pc[p] /\ pc'[p] \in {"ms_create", "ms_save", "cm_save"})
          => messages' = messages
     /\ \A i \in DOMAIN messages' :
          /\ messages'[i].content.pre = 0
          /\ messages'[i].content.post = 0
          /\ messages'[i].content.body \in 1 .. MaxContentLength]_vars

\* C28 witness: the store holds a message of 5000 characters that was sent
\* with blanks around it, and a MESSAGE_SEND of 5001 characters has failed
C28_Witness ==
  /\ ret.call.op = "MESSAGE_SEND"
  /\ ret.call.content = Text(0, MaxContentLength + 1, 0)
  /\ ~ret.ok
  /\ ret.error = "Message validation failed"
  /\ Len(messages) = 1
  /\ messages[1].content = Text(0, MaxContentLength, 0)
  /\ messages[1].senderId = "u2"

\* C29: when the user.save() of an enter meets a stored user of its username
\* whose password is the one passed (the user a concurrent enter with the same
\* arguments has just created), the enter returns that user; and no two
\* stored users have one username.
C29_EnterRaceRecovered ==
  [][/\ \A p \in Procs, u \in DOMAIN users :
          (pc[p] = "en_save" /\ pc'[p] = "idle"
             /\ users[u].username = doc[p].user.username
             /\ users[u].passwordHash = doc[p].user.passwordHash)
          => (ret'.ok /\ ret'.value.userId = u)
     /\ \A u, v \in DOMAIN users' :
          users'[u].username = users'[v].username => u = v]_vars

\* C30: in every step, each stored message stays in the store under its id
\* and keeps its chatId, senderId, content and createdAt.
C30_MessagesImmutable ==
  [][\A i \in DOMAIN messages :
       /\ i \in DOMAIN messages'
       /\ messages'[i].chatId = messages[i].chatId
       /\ messages'[i].senderId = messages[i].senderId
       /\ messages'[i].content = messages[i].content
       /\ messages'[i].createdAt = messages[i].createdAt]_vars

\* C30 witness: a stored message has been deleted by its sender and is still
\* in the store
C30_Witness ==
  /\ ret.call.op = "MESSAGE_DELETE"
  /\ ret.ok
  /\ Len(messages) = 1
  /\ messages[1].deleted
  /\ messages[1].senderId = ret.call.userId
  /\ messages[1].content = Hi

\* C31: no stored chat has the status rejected: every stored chat is pending
\* or accepted, and no chat returned by a call is rejected either.
C31_NeverRejected ==
  /\ \A i \in DOMAIN chats : chats[i].status \in {"pending", "accepted"}
  /\ (ret.call.op \in {"createChatRequest", "acceptChat"} /\ ret.ok)
       => ret.value.status # "rejected"

\* C31 witness: both chats the bound allows are stored and have been
\* accepted, the second one by the call that has just returned
C31_Witness ==
  /\ Len(chats) = MaxChats
  /\ \A i \in DOMAIN chats : chats[i].status = "accepted"
  /\ ret.call.op = "acceptChat"
  /\ ret.ok
  /\ ret.value.id = MaxChats

\* C32: when the chat.save() of a createChatRequest comes after a concurrent
\* request has stored a chat of the same pair, the call returns that chat
\* without an error and the chat collection stays as it is (no second chat of
\* the pair is stored).
C32_DuplicateSaveRecovered ==
  [][\A p \in Procs :
       (pc[p] = "cr_save" /\ pc'[p] = "idle"
          /\ ChatsOfPair(chats, call[p].fromUserId, call[p].toUserId) # {})
       => /\ ret'.ok
          /\ ret'.value.id \in ChatsOfPair(chats, call[p].fromUserId, call[p].toUserId)
          /\ chats' = chats]_vars

\* C33: once the disconnect of a socket has been processed, no user resolves
\* to that socket in the presence map, whatever USER_CONNECT and disconnect
\* events came before (the socket may have sent USER_CONNECT for several
\* user ids).
C33_DisconnectClearsEndpoint ==
  [][ret'.call.op = "disconnect" =>
       \A k \in DOMAIN onlineUsers' : onlineUsers'[k][2] # ret'.call.socketId]_vars

\* C37: the disconnect of a socket leaves every user who resolves to another
\* socket resolving to that socket (a user who has reconnected on e2 is not
\* evicted by the disconnect of e1), and every event a step pushes for a user
\* goes to the socket the user resolves to at that moment.
C37_StaleDisconnectKeepsPresence ==
  [][/\ ret'.call.op = "disconnect" =>
          \A k \in DOMAIN onlineUsers :
            onlineUsers[k][2] # ret'.call.socketId =>
              \E j \in DOMAIN onlineUsers' : onlineUsers'[j] = onlineUsers[k]
     /\ \A k \in DOMAIN emitted' :
          emitted'[k].type # "ERROR" =>
            \E j \in DOMAIN onlineUsers : onlineUsers[j][2] = emitted'[k].to]_vars

\* C37 witness: socket s1 has been disconnected while u1 resolves to s2, and
\* s2 is open
C37_Witness ==
  /\ ret.call.op = "disconnect"
  /\ ret.call.socketId = "s1"
  /\ "s2" \in sockets
  /\ \E k \in DOMAIN onlineUsers : onlineUsers[k] = <<"u1", "s2">>

\* C34: every MESSAGE_RECEIVED event a step pushes is about a message that the
\* store holds once the step is done, the message of the MESSAGE_SEND that
\* returns with success in that step; and a MESSAGE_SEND that ends in an error
\* pushes no MESSAGE_RECEIVED.
C34_PersistenceBeforeDelivery ==
  [][/\ \A k \in DOMAIN emitted' :
          emitted'[k].type = "MESSAGE_RECEIVED" =>
            /\ emitted'[k].ref \in DOMAIN messages'
            /\ ret'.call.op = "MESSAGE_SEND"
            /\ ret'.ok
            /\ ret'.value.id = emitted'[k].ref
            /\ messages'[emitted'[k].ref].chatId = ret'.call.chatId
     /\ (ret'.call.op = "MESSAGE_SEND" /\ ~ret'.ok) =>
          \A k \in DOMAIN emitted' : emitted'[k].type # "MESSAGE_RECEIVED"]_vars

\* C34 witness: a MESSAGE_SEND has stored its message and pushed it to both
\* participants
C34_Witness ==
  /\ ret.call.op = "MESSAGE_SEND"
  /\ ret.ok
  /\ Len(emitted) = 2
  /\ \A k \in DOMAIN emitted :
       emitted[k].type = "MESSAGE_RECEIVED" /\ emitted[k].ref \in DOMAIN messages

\* C35: in every page getChatMessages returns, two messages of one creation
\* time stand in the order of their insertion (the earlier inserted one
\* first); and the page is the one a repeated call on the unchanged store
\* computes.
C35_TiesInInsertionOrder ==
  (ret.call.op = "getChatMessages" /\ ret.ok) =>
    /\ \A k, l \in DOMAIN ret.value.data :
         (k < l /\ ret.value.data[k].createdAt = ret.value.data[l].createdAt)
           => ret.value.data[k].id < ret.value.data[l].id
    /\ LET ids == Reverse(SkipLimit(SortNewestFirst(messages, ret.call.chatId),
                                    (ret.value.page - 1) * ret.value.limit,
                                    ret.value.limit))
       IN ret.value.data = [k \in 1 .. Len(ids) |-> ToMessageResponse(messages, ids[k])]

\* C36: the password of a user who has none is set once: an enter that sets
\* it and succeeds finds the user still without a password at its save; a
\* stored password hash never changes; and an enter that returns a user with
\* success has passed the password the store holds for that user.
C36_PasswordClaimedOnce ==
  [][/\ \A p \in Procs :
          (pc[p] = "en_claim_save" /\ pc'[p] = "idle" /\ ret'.ok)
          => users[doc[p].userId].passwordHash = <<>>
     /\ \A u \in DOMAIN users :
          users[u].passwordHash # <<>> => users'[u].passwordHash = users[u].passwordHash
     /\ (ret'.call.op = "enter" /\ ret'.ok)
          => users'[ret'.value.userId].passwordHash = <<Hash(ret'.call.password)>>]_vars

\* C38: a step pushes a CHAT_REQUEST event only for the chat it has just
\* stored: a createChatRequest that returns a chat that was already stored
\* pushes none, so that at most one CHAT_REQUEST is pushed per chat.
C38_OneRequestEventPerChat ==
  [][\A k \in DOMAIN emitted' :
       emitted'[k].type = "CHAT_REQUEST" =>
         /\ emitted'[k].ref \notin DOMAIN chats
         /\ emitted'[k].ref \in DOMAIN chats']_vars

\* C39: in every step, a stored chat whose acceptedAt is set keeps that
\* acceptedAt, also when acceptChat calls on the chat run concurrently.
C39_AcceptedAtFixed ==
  [][\A i \in DOMAIN chats :
       chats[i].acceptedAt # <<>> => chats'[i].acceptedAt = chats[i].acceptedAt]_vars

\* C40: a MESSAGE_SEND that ends in an error pushes exactly one ERROR event
\* to the socket it came from, whichever step failed.
C40_OneErrorPerFailure ==
  [][(ret'.call.op = "MESSAGE_SEND" /\ ~ret'.ok) =>
       Cardinality({k \in DOMAIN emitted' :
                      emitted'[k].type = "ERROR" /\ emitted'[k].to = ret'.call.socket}) = 1]_vars

====
